---------------------------- MODULE Spec2Model ----------------------------
(***************************************************************************)
(* A model of coco.h: the elapsed timer (coco::timer), the named timer     *)
(* registry (coco::multiple_timer_manager) with its shared sample set      *)
(* (timer_data_logger / timer_statistics), the trace emitter               *)
(* (coco::instrumentor) and the scoped timer that feeds it                 *)
(* (coco::instrumentation_timer).                                          *)
(*                                                                         *)
(* Build modelled: _DEBUG defined.  COCO_ASSERT is defined only under      *)
(* _DEBUG (coco.h:13-24) and is used unconditionally, so this is the only  *)
(* configuration of the header that compiles; a failed COCO_ASSERT calls   *)
(* std::abort().                                                           *)
(***************************************************************************)
EXTENDS Integers, Sequences, FiniteSets, TLC

\* ------------------------------------------------------------------ bounds
\* The clock is counted in raw ticks 0..MaxClock.
MaxClock == 4
\* Raw clock ticks per unit of _Duration (stands for the ratio between the
\* period of high_resolution_clock and that of _Duration::type).
UnitTicks == 2
\* Thresholds passed to complated_on_time are 0..MaxThreshold.
MaxThreshold == 3
\* The registry allocates at most MaxAlloc timers and takes at most
\* MaxSamples samples; its caller sees the clock advance by whole units, at
\* most MaxManagerUnits of them.
MaxAlloc == 2
MaxSamples == 2
MaxManagerUnits == 1

\* The timer names the caller uses.
Names == {"a", "b", "c"}

\* The instrumentor takes at most MaxProfiles write_profile calls between two
\* end_session calls and at most MaxSessions begin_session calls.
MaxProfiles == 3
MaxSessions == 2

\* The names of the profiled scopes, as sequences of characters.
EventNames == {<<"f">>, <<"g", "\"", "h", "\"">>}

\* The detail::profile_result values handed to write_profile.
ProfileResults ==
    [name : EventNames, start : 0..1, end : 2..2, threadID : {1}]

\* The names given to instrumentation timers: every string of at most
\* MaxNameLen characters over Chars (a letter, the double quote, the single
\* quote, the backslash and a control character).
MaxNameLen == 3
Chars == {"a", "\"", "'", "\\", "\n"}
NameStrings == UNION {[1..n -> Chars] : n \in 0..MaxNameLen}

\* The statistics take at most MaxAdds add_measurement calls, each with a
\* sample of SampleValues.
MaxAdds == 4
SampleValues == {1, 2, 3, 4, 10, 20, 30}

VARIABLES
    now,            \* clock_t::now() in raw ticks
    lastCall,       \* the call made by the last step: [op |-> ..., ...]
    ret,            \* the value returned by the last call that returns one
    aborted,        \* "none", or the message of the COCO_ASSERT that aborted
    \* ---- one coco::timer
    tmr,            \* [m_time, m_stopped, m_paused, m_timepoint]
    pre_tmr,        \* history: tmr as it was before the last call
    g_active,       \* history: sum of the durations of the finished intervals
                    \* in which the timer was running and not paused
    g_since,        \* history: start of the current such interval
    phase,          \* history: "measuring" from construction/reset up to the
                    \* first stop(), "stopped" right after it, "after" later
    \* ---- one coco::multiple_timer_manager
    heap,           \* the timers the registry can reach: pointer p -> timer
    allocated,      \* the number of timers allocated with new so far
    m_timers,       \* std::unordered_map<std::string, timer*>: name -> pointer
    m_measurements, \* m_data_logger.m_stats->m_measurements
    \* ---- the coco::instrumentor singleton
    instance,       \* [m_current_session, m_output_stream, m_profile_count,
                    \*  m_active]
    callLog,        \* history: the calls made on the instrumentor since its
                    \* construction or the last end_session(), ending with
                    \* that end_session() if it was the last call
    begun,          \* history: the number of begin_session calls
    \* ---- one coco::instrumentation_timer
    itimer,         \* [m_timepoint, m_name, m_time, m_stopped]
    destroyed,      \* its destructor has run
    \* ---- one coco::timer_statistics (its samples are m_measurements)
    added,          \* history: the number of add_measurement calls
    \* ---- threads calling instrumentor::write_profile
    pc,             \* thread -> the statement of write_profile it is at
    loaded,         \* thread -> the m_profile_count it read
    serialized      \* the callers hold a lock around each write_profile call

vars == <<now, lastCall, ret, aborted, tmr, pre_tmr, g_active, g_since, phase,
          heap, allocated, m_timers, m_measurements, instance, callLog, begun,
          itimer, destroyed, added, pc, loaded, serialized>>

managerVars == <<heap, allocated, m_timers, m_measurements>>

instrumentorVars == <<instance, callLog, begun>>

timerVars == <<tmr, pre_tmr, g_active, g_since, phase>>

instrumentationTimerVars == <<itimer, destroyed>>

statisticsVars == <<added>>

threadVars == <<pc, loaded, serialized>>

laterVars == <<instrumentationTimerVars, statisticsVars, threadVars>>

\* ------------------------------------------------------------------ clock
\* time_point_cast<_Duration::type>(tp).time_since_epoch().count():
\* truncation of the raw tick count to whole units.
tp_cast(tp) == tp \div UnitTicks

\* ------------------------------------------------------------ coco::timer
\* The members as the in-class initialisers leave them, before the
\* constructor body runs: m_time = 0, m_stopped = true, m_paused = false,
\* m_timepoint value-initialised (the clock's epoch).
timer_members ==
    [m_time |-> 0, m_stopped |-> TRUE, m_paused |-> FALSE, m_timepoint |-> 0]

\* start() without its guard (the variant that restarts a running timer).
timer_start_unguarded(self, clk) ==
    [self EXCEPT !.m_time = 0, !.m_paused = FALSE,
                 !.m_stopped = FALSE, !.m_timepoint = clk]

timer_start(self, clk) ==
    IF self.m_stopped
    THEN [self EXCEPT !.m_time = 0, !.m_paused = FALSE,
                      !.m_stopped = FALSE, !.m_timepoint = clk]
    ELSE self

timer_pause(self, clk) ==
    IF ~self.m_paused
    THEN [self EXCEPT !.m_paused = TRUE,
                      !.m_time = self.m_time
                                 + (tp_cast(clk) - tp_cast(self.m_timepoint))]
    ELSE self

timer_resume(self, clk) ==
    IF self.m_paused
    THEN [self EXCEPT !.m_paused = FALSE, !.m_timepoint = clk]
    ELSE self

timer_reset(self, clk) ==
    [self EXCEPT !.m_time = 0, !.m_paused = FALSE,
                 !.m_stopped = FALSE, !.m_timepoint = clk]

timer_stop(self, clk) ==
    IF ~self.m_stopped
    THEN [self EXCEPT !.m_stopped = TRUE,
                      !.m_time = self.m_time
                                 + (tp_cast(clk) - tp_cast(self.m_timepoint))]
    ELSE self

\* complated_on_time with a strict comparison.
complated_on_time_strict(self, time) ==
    IF ~self.m_stopped THEN FALSE ELSE time > self.m_time

complated_on_time(self, time) ==
    IF ~self.m_stopped THEN FALSE ELSE time >= self.m_time

is_running(self) == ~self.m_stopped

is_paused(self) == self.m_paused

get_time(self) == self.m_time

\* timer::timer(name): the constructor body calls start().
timer_ctor(clk) == timer_start(timer_members, clk)

\* ------------------------------------------- coco::multiple_timer_manager
\* The registry operations as functions of (heap, m_timers, m_measurements).
\* Each COCO_ASSERT is the operator <op>_assert: "none", or the message of
\* the assertion that fails and aborts the process.

\* A default-constructed std::unordered_map.
no_timers == [n \in {} |-> 0]

\* No timer allocated.
no_heap == [p \in {} |-> timer_members]

\* m_timers.find(name) != m_timers.end()
found(timers, name) == name \in DOMAIN timers

\* m_timers.erase(it)
erase(timers, name) == [n \in DOMAIN timers \ {name} |-> timers[n]]

\* m_timers[name] = p
assign(timers, name, p) ==
    [n \in DOMAIN timers \cup {name} |-> IF n = name THEN p ELSE timers[n]]

add_and_start_timer_assert(timers, name) ==
    IF found(timers, name) THEN "Timer already exists!" ELSE "none"

\* m_timers[timer_name] = new coco::timer<_Duration>(), the new timer being
\* at the fresh pointer p.
add_and_start_timer(h, timers, name, clk, p) ==
    [heap |-> [q \in DOMAIN h \cup {p} |-> IF q = p THEN timer_ctor(clk) ELSE h[q]],
     m_timers |-> assign(timers, name, p)]

\* remove_timer erases the map entry and does not delete the timer: the
\* timer is leaked, the registry holds no pointer to it any more and its
\* address is never handed out again.  The model forgets the leaked timer.
remove_timer(h, timers, name) ==
    [heap |-> [q \in DOMAIN h \ {timers[name]} |-> h[q]],
     m_timers |-> erase(timers, name)]

\* The assertion shared by stop_timer, reset_timer, pause_timer,
\* resume_timer, remove_timer and get_elapsed_time.
named_timer_assert(timers, name) ==
    IF found(timers, name) THEN "none" ELSE "Timer not found!"

get_timer_assert(timers, name) ==
    IF found(timers, name) THEN "none" ELSE "Timer not found"

\* stop_timer appending the time read before the stop.
stop_timer_early_sample(h, timers, samples, name, clk) ==
    [heap |-> [h EXCEPT ![timers[name]] = timer_stop(@, clk)],
     m_measurements |-> Append(samples, get_time(h[timers[name]]))]

stop_timer(h, timers, samples, name, clk) ==
    LET stopped == [h EXCEPT ![timers[name]] = timer_stop(@, clk)]
    IN  [heap |-> stopped,
         m_measurements |-> Append(samples, get_time(stopped[timers[name]]))]

\* reset_timer resetting every timer of the map.
reset_timer_everywhere(h, timers, name, clk) ==
    [p \in DOMAIN h |-> IF p \in {timers[n] : n \in DOMAIN timers}
                         THEN timer_reset(h[p], clk) ELSE h[p]]

reset_timer(h, timers, name, clk) ==
    [h EXCEPT ![timers[name]] = timer_reset(@, clk)]

pause_timer(h, timers, name, clk) ==
    [h EXCEPT ![timers[name]] = timer_pause(@, clk)]

resume_timer(h, timers, name, clk) ==
    [h EXCEPT ![timers[name]] = timer_resume(@, clk)]

\* The pointers the map holds.
owned(timers) == {timers[n] : n \in DOMAIN timers}

reset_all_timers(h, timers, clk) ==
    [p \in DOMAIN h |-> IF p \in owned(timers) THEN timer_reset(h[p], clk) ELSE h[p]]

stop_all_timers(h, timers, clk) ==
    [p \in DOMAIN h |-> IF p \in owned(timers) THEN timer_stop(h[p], clk) ELSE h[p]]

get_timer(timers, name) == timers[name]

is_timer_running(h, timers, name) ==
    IF found(timers, name) THEN ~is_running(h[timers[name]]) ELSE FALSE

get_elapsed_time(h, timers, name) == get_time(h[timers[name]])

\* rename_timer with its two assertions in the other order.
rename_timer_assert_old_first(timers, old_name, new_name) ==
    IF ~found(timers, old_name) THEN "Timer not found!"
    ELSE IF found(timers, new_name) THEN "New timer name already exists!"
    ELSE "none"

rename_timer_assert(timers, old_name, new_name) ==
    IF found(timers, new_name) THEN "New timer name already exists!"
    ELSE IF ~found(timers, old_name) THEN "Timer not found!"
    ELSE "none"

\* rename_timer leaving the old key in the map.
rename_timer_keeps_old(timers, old_name, new_name) ==
    assign(timers, new_name, timers[old_name])

rename_timer(timers, old_name, new_name) ==
    erase(assign(timers, new_name, timers[old_name]), old_name)

\* ------------------------------------------------------ coco::instrumentor
\* std::ofstream m_output_stream: whether a file is open, whether the stream
\* is good (no failbit or badbit), and what has been written to the file it
\* has open or had open last.  Opening a file truncates it.
closed_stream == [is_open |-> FALSE, good |-> TRUE, file |-> <<>>]

\* m_output_stream.open(filepath): fails (failbit) when a file is open
\* already; otherwise opens the file empty and clears the state.
stream_open(st) ==
    IF st.is_open THEN [st EXCEPT !.good = FALSE]
    ELSE [is_open |-> TRUE, good |-> TRUE, file |-> <<>>]

\* m_output_stream.close(): failbit when no file is open.
stream_close(st) ==
    IF st.is_open THEN [st EXCEPT !.is_open = FALSE]
    ELSE [st EXCEPT !.good = FALSE]

\* m_output_stream << x: nothing is written unless the stream is good and a
\* file is open; a write without an open file sets badbit.
stream_put(st, x) ==
    IF st.good /\ st.is_open THEN [st EXCEPT !.file = Append(@, x)]
    ELSE [st EXCEPT !.good = FALSE]

\* The pieces of text written to the stream.
Text(t) == [w |-> t]
Header == Text("{\"otherData\": {},\"traceEvents\":[")
Footer == Text("]}")
Comma == Text(",")

\* A replacement that touches backslashes as well.
replace_quotes_and_backslashes(name) ==
    [i \in DOMAIN name |-> IF name[i] \in {"\"", "\\"} THEN "'" ELSE name[i]]

\* std::replace(name.begin(), name.end(), '"', '\'')
replace_quotes(name) ==
    [i \in DOMAIN name |-> IF name[i] = "\"" THEN "'" ELSE name[i]]

\* The JSON object write_profile writes for result.
EventObject(result) ==
    [w |-> "object", cat |-> "function", dur |-> result.end - result.start,
     name |-> replace_quotes(result.name), ph |-> "X", pid |-> 0,
     tid |-> result.threadID, ts |-> result.start]

\* instrumentor::instrumentor()
instrumentor_ctor ==
    [m_current_session |-> "nullptr", m_output_stream |-> closed_stream,
     m_profile_count |-> 0, m_active |-> FALSE]

write_header(self) ==
    [self EXCEPT !.m_output_stream = stream_put(@, Header)]

write_footer(self) ==
    [self EXCEPT !.m_output_stream = stream_put(@, Footer)]

begin_session(self, name) ==
    LET opened == [self EXCEPT !.m_output_stream = stream_open(@)]
    IN  [write_header(opened) EXCEPT !.m_current_session = name,
                                     !.m_active = TRUE]

\* end_session leaving m_profile_count as it is.
end_session_keeps_count(self) ==
    [write_footer(self) EXCEPT !.m_output_stream = stream_close(@),
                               !.m_current_session = "nullptr",
                               !.m_active = FALSE]

end_session(self) ==
    [write_footer(self) EXCEPT !.m_output_stream = stream_close(@),
                               !.m_current_session = "nullptr",
                               !.m_profile_count = 0,
                               !.m_active = FALSE]

write_profile(self, result) ==
    LET counted == [self EXCEPT !.m_profile_count = @ + 1]
        separated == IF self.m_profile_count > 0
                     THEN [counted EXCEPT !.m_output_stream = stream_put(@, Comma)]
                     ELSE counted
    IN  [separated EXCEPT !.m_output_stream = stream_put(@, EventObject(result))]

\* ---------------------- instrumentor::write_profile, statement by statement
\* The text of the JSON object as the seven statements of write_profile
\* write it, one part each.
Part(field, value) == [w |-> "part", field |-> field, value |-> value]

EventParts(result) ==
    <<Part("cat", EventObject(result).cat),
      Part("dur", EventObject(result).dur),
      Part("name", EventObject(result).name),
      Part("ph", EventObject(result).ph),
      Part("pid", EventObject(result).pid),
      Part("tid", EventObject(result).tid),
      Part("ts", EventObject(result).ts)>>

\* The steps of one write_profile call: m_profile_count++ is a read and a
\* write of an int that is not atomic; then the "," statement, the seven
\* statements writing the object, and the flush.  (The copy of the name and
\* std::replace work on a local and are part of the step that writes it.)
Statements ==
    <<"read", "write", "comma", "cat", "dur", "name", "ph", "pid", "tid", "ts", "flush">>

\* A "," is never written.
needs_comma_never(count) == FALSE

\* m_profile_count++ > 0, on the value read
needs_comma(count) == count > 0

\* Statement k of write_profile(result) on instrumentor self, by a thread
\* that has read the count `count` (its own read, once k = 1 is done): the
\* instrumentor and the thread's count afterwards.
write_profile_statement(self, k, result, count) ==
    IF Statements[k] = "read"
    THEN [instance |-> self, loaded |-> self.m_profile_count]
    ELSE IF Statements[k] = "write"
    THEN [instance |-> [self EXCEPT !.m_profile_count = count + 1], loaded |-> count]
    ELSE IF Statements[k] = "comma"
    THEN [instance |-> IF needs_comma(count)
                       THEN [self EXCEPT !.m_output_stream = stream_put(@, Comma)]
                       ELSE self,
          loaded |-> count]
    ELSE IF Statements[k] = "flush"
    THEN [instance |-> self, loaded |-> count]
    ELSE [instance |-> [self EXCEPT !.m_output_stream =
                            stream_put(@, EventParts(result)[k - 3])],
          loaded |-> count]

\* ------------------------------------------- coco::instrumentation_timer
\* The members as the in-class initialisers leave them.
instrumentation_timer_members ==
    [m_timepoint |-> 0, m_name |-> <<>>, m_time |-> 0, m_stopped |-> FALSE]

instrumentation_timer_start(self, clk) ==
    [self EXCEPT !.m_time = 0, !.m_stopped = FALSE, !.m_timepoint = clk]

\* instrumentation_timer(name) : m_name(name) { start(); }
instrumentation_timer_ctor(name, clk) ==
    instrumentation_timer_start(
        [instrumentation_timer_members EXCEPT !.m_name = name], clk)

\* The detail::profile_result stop() builds at clock value clk on thread tid.
profile_result(self, clk, tid) ==
    [name |-> self.m_name, start |-> tp_cast(self.m_timepoint),
     end |-> tp_cast(clk), threadID |-> tid]

\* stop(): the timer and the instrumentor singleton afterwards.
instrumentation_timer_stop(self, inst, clk, tid) ==
    IF ~self.m_stopped
    THEN [self |-> [self EXCEPT !.m_time = tp_cast(clk) - tp_cast(self.m_timepoint),
                                !.m_stopped = TRUE],
          instance |-> write_profile(inst, profile_result(self, clk, tid))]
    ELSE [self |-> self, instance |-> inst]

\* ------------------------------------------------ coco::timer_statistics
\* A double is held exactly, as the root-th root of num / den (root is 1 for
\* everything but a standard deviation): conversions from long long and the
\* divisions are exact in the model, where the machine rounds the quotient to
\* the nearest double.
to_double(n) == [num |-> n, den |-> 1, root |-> 1]

\* x / n, n a size_t converted to double.
divided(x, n) == [x EXCEPT !.den = @ * n]

\* std::sqrt
sqrt(x) == IF x.num = 0 THEN to_double(0) ELSE [x EXCEPT !.root = 2 * @]

\* std::accumulate(first, last, 0LL)
RECURSIVE accumulate(_, _)
accumulate(s, init) ==
    IF s = <<>> THEN init ELSE accumulate(Tail(s), init + Head(s))

\* std::sort: the elements in ascending order.
RECURSIVE sort(_)
sort(s) ==
    IF s = <<>> THEN <<>>
    ELSE LET rest == sort(Tail(s))
             k == Cardinality({i \in 1..Len(rest) : rest[i] < Head(s)})
         IN  SubSeq(rest, 1, k) \o <<Head(s)>> \o SubSeq(rest, k + 1, Len(rest))

add_measurement(s, time) == Append(s, time)

clear_measurements(s) == <<>>

calculate_average(s) ==
    IF s = <<>> THEN to_double(0)
    ELSE divided(to_double(accumulate(s, 0)), Len(s))

\* variance += std::pow(time - avg, 2) for each sample, over the common
\* denominator avg.den * avg.den.
RECURSIVE squared_deviations(_, _)
squared_deviations(s, avg) ==
    IF s = <<>> THEN 0
    ELSE (Head(s) * avg.den - avg.num) * (Head(s) * avg.den - avg.num)
         + squared_deviations(Tail(s), avg)

\* The variance with the divisor N - 1.
calculate_variance_sample(s) ==
    IF s = <<>> THEN to_double(0)
    ELSE LET avg == calculate_average(s)
         IN  [num |-> squared_deviations(s, avg),
              den |-> avg.den * avg.den * (Len(s) - 1), root |-> 1]

calculate_variance(s) ==
    IF s = <<>> THEN to_double(0)
    ELSE LET avg == calculate_average(s)
         IN  divided([num |-> squared_deviations(s, avg),
                      den |-> avg.den * avg.den, root |-> 1], Len(s))

calculate_standard_deviation(s) == sqrt(calculate_variance(s))

\* The median taking the upper central element whatever the count.
calculate_median_upper(s) ==
    IF s = <<>> THEN [value |-> to_double(0), m_measurements |-> s]
    ELSE [value |-> to_double(sort(s)[Len(s) \div 2 + 1]), m_measurements |-> s]

\* calculate_median sorts a copy: value is what it returns, m_measurements
\* the stored samples after the call.  (Indices are 1-based here.)
calculate_median(s) ==
    IF s = <<>> THEN [value |-> to_double(0), m_measurements |-> s]
    ELSE LET sorted_measurements == sort(s)
             n == Len(sorted_measurements)
         IN  [value |-> IF n % 2 = 0
                        THEN divided(to_double(sorted_measurements[n \div 2]
                                               + sorted_measurements[n \div 2 + 1]), 2)
                        ELSE to_double(sorted_measurements[n \div 2 + 1]),
              m_measurements |-> s]

\* std::min_element / std::max_element
min_element(s) == CHOOSE x \in {s[i] : i \in DOMAIN s} : \A i \in DOMAIN s : x <= s[i]

max_element(s) == CHOOSE x \in {s[i] : i \in DOMAIN s} : \A i \in DOMAIN s : x >= s[i]

\* get_min_value answering -1 for no samples.
get_min_value_sentinel(s) == IF s = <<>> THEN -1 ELSE min_element(s)

get_min_value(s) == IF s = <<>> THEN 0 ELSE min_element(s)

get_max_value(s) == IF s = <<>> THEN 0 ELSE max_element(s)

\* ------------------------------------------------ the parts not in use
\* No instrumentation_timer, no statistics history and no thread take part.
NoInstrumentationTimer ==
    /\ itimer = instrumentation_timer_members
    /\ destroyed = FALSE

NoStatistics == added = 0

NoThreads ==
    /\ pc = <<>>
    /\ loaded = <<>>
    /\ serialized = TRUE

NoTimer ==
    /\ tmr = timer_members
    /\ pre_tmr = timer_members
    /\ g_active = 0
    /\ g_since = 0
    /\ phase = "measuring"

NoManager ==
    /\ heap = no_heap
    /\ allocated = 0
    /\ m_timers = no_timers

\* ------------------------------------------------------------ the caller
\* A call that returns normally, with the value it returns ("void" if none).
Return(op, value) ==
    /\ lastCall' = [op |-> op, args |-> <<>>]
    /\ ret' = value
    /\ UNCHANGED <<now, aborted>>

\* ------------------------------------------- one timer driven by a caller
\* An interval "in which the timer was running and not paused".
Counting(t) == is_running(t) /\ ~is_paused(t)

\* The history variables follow a call that takes the timer from t to u at
\* clock value clk; fresh says the call (re)initialised the timer.
History(op, t, u, fresh) ==
    /\ pre_tmr' = t
    /\ g_active' = IF fresh THEN 0
                   ELSE IF Counting(t) /\ ~Counting(u)
                        THEN g_active + (tp_cast(now) - tp_cast(g_since))
                        ELSE g_active
    /\ g_since' = IF fresh \/ (~Counting(t) /\ Counting(u)) THEN now
                  ELSE g_since
    /\ phase' = IF fresh THEN "measuring"
                ELSE IF u = t /\ op = "start" THEN phase
                ELSE IF phase = "measuring" /\ op = "stop" THEN "stopped"
                ELSE IF phase = "measuring" THEN "measuring"
                ELSE "after"

Tick ==
    /\ now < MaxClock
    /\ now' = now + 1
    /\ lastCall' = [op |-> "tick", args |-> <<>>]
    /\ ret' = "void"
    /\ UNCHANGED <<aborted, timerVars>>

CallStart ==
    /\ tmr' = timer_start(tmr, now)
    /\ History("start", tmr, tmr', tmr.m_stopped)
    /\ Return("start", "void")

CallPause ==
    /\ tmr' = timer_pause(tmr, now)
    /\ History("pause", tmr, tmr', FALSE)
    /\ Return("pause", "void")

CallResume ==
    /\ tmr' = timer_resume(tmr, now)
    /\ History("resume", tmr, tmr', FALSE)
    /\ Return("resume", "void")

CallReset ==
    /\ tmr' = timer_reset(tmr, now)
    /\ History("reset", tmr, tmr', TRUE)
    /\ Return("reset", "void")

CallStop ==
    /\ tmr' = timer_stop(tmr, now)
    /\ History("stop", tmr, tmr', FALSE)
    /\ Return("stop", "void")

CallComplatedOnTime ==
    \E time \in 0..MaxThreshold :
        /\ ret' = complated_on_time(tmr, time)
        /\ lastCall' = [op |-> "complated_on_time", args |-> <<time>>]
        /\ pre_tmr' = tmr
        /\ UNCHANGED <<now, aborted, tmr, g_active, g_since, phase>>

InitTimer ==
    /\ now \in 0..1
    /\ lastCall = [op |-> "timer", args |-> <<>>]
    /\ ret = "void"
    /\ aborted = "none"
    /\ tmr = timer_ctor(now)
    /\ pre_tmr = timer_members
    /\ g_active = 0
    /\ g_since = now
    /\ phase = "measuring"
    /\ heap = no_heap
    /\ allocated = 0
    /\ m_timers = no_timers
    /\ m_measurements = <<>>
    /\ instance = instrumentor_ctor
    /\ callLog = <<>>
    /\ begun = 0
    /\ NoInstrumentationTimer
    /\ NoStatistics
    /\ NoThreads

NextTimer ==
    \/ (Tick /\ UNCHANGED <<managerVars, instrumentorVars, laterVars>>)
    \/ (CallStart /\ UNCHANGED <<managerVars, instrumentorVars, laterVars>>)
    \/ (CallPause /\ UNCHANGED <<managerVars, instrumentorVars, laterVars>>)
    \/ (CallResume /\ UNCHANGED <<managerVars, instrumentorVars, laterVars>>)
    \/ (CallReset /\ UNCHANGED <<managerVars, instrumentorVars, laterVars>>)
    \/ (CallStop /\ UNCHANGED <<managerVars, instrumentorVars, laterVars>>)
    \/ (CallComplatedOnTime /\ UNCHANGED <<managerVars, instrumentorVars, laterVars>>)

SpecTimer == InitTimer /\ [][NextTimer]_vars


\* ------------------------------------------- the registry driven by a caller
\* In this specification lastCall records a call in full only when it
\* aborted or re-keyed the map (rename_timer); after any other call it is
\* [op |-> "other"], and ret stays "void": the value a query returns is the
\* value of its operator in the state in which it is called.

\* A failed COCO_ASSERT calls std::abort(): the process ends with the message
\* and none of its objects survives.
Abort(msg, op, args) ==
    /\ aborted' = msg
    /\ lastCall' = [op |-> op, args |-> args]
    /\ now' = 0
    /\ ret' = "void"
    /\ heap' = no_heap
    /\ allocated' = 0
    /\ m_timers' = no_timers
    /\ m_measurements' = <<>>

\* A call that returns normally.
Returned ==
    /\ lastCall' = [op |-> "other", args |-> <<>>]
    /\ UNCHANGED <<now, ret, aborted>>

\* The clock as the caller finds it between two calls: one unit later.
ManagerTick ==
    /\ aborted = "none"
    /\ now < MaxManagerUnits * UnitTicks
    /\ now' = now + UnitTicks
    /\ lastCall' = [op |-> "other", args |-> <<>>]
    /\ UNCHANGED <<ret, aborted, managerVars>>

AddAndStartTimerCall(name) ==
    /\ aborted = "none"
    /\ IF add_and_start_timer_assert(m_timers, name) # "none"
       THEN Abort(add_and_start_timer_assert(m_timers, name),
                  "add_and_start_timer", <<name>>)
       ELSE /\ allocated < MaxAlloc
            /\ allocated' = allocated + 1
            /\ heap' = add_and_start_timer(heap, m_timers, name, now, allocated + 1).heap
            /\ m_timers' =
                   add_and_start_timer(heap, m_timers, name, now, allocated + 1).m_timers
            /\ Returned
            /\ UNCHANGED m_measurements

StopTimerCall(name) ==
    /\ aborted = "none"
    /\ IF named_timer_assert(m_timers, name) # "none"
       THEN Abort(named_timer_assert(m_timers, name), "stop_timer", <<name>>)
       ELSE /\ Len(m_measurements) < MaxSamples
            /\ heap' = stop_timer(heap, m_timers, m_measurements, name, now).heap
            /\ m_measurements' =
                   stop_timer(heap, m_timers, m_measurements, name, now).m_measurements
            /\ Returned
            /\ UNCHANGED <<allocated, m_timers>>

ResetTimerCall(name) ==
    /\ aborted = "none"
    /\ IF named_timer_assert(m_timers, name) # "none"
       THEN Abort(named_timer_assert(m_timers, name), "reset_timer", <<name>>)
       ELSE /\ heap' = reset_timer(heap, m_timers, name, now)
            /\ Returned
            /\ UNCHANGED <<allocated, m_timers, m_measurements>>

PauseTimerCall(name) ==
    /\ aborted = "none"
    /\ IF named_timer_assert(m_timers, name) # "none"
       THEN Abort(named_timer_assert(m_timers, name), "pause_timer", <<name>>)
       ELSE /\ heap' = pause_timer(heap, m_timers, name, now)
            /\ Returned
            /\ UNCHANGED <<allocated, m_timers, m_measurements>>

ResumeTimerCall(name) ==
    /\ aborted = "none"
    /\ IF named_timer_assert(m_timers, name) # "none"
       THEN Abort(named_timer_assert(m_timers, name), "resume_timer", <<name>>)
       ELSE /\ heap' = resume_timer(heap, m_timers, name, now)
            /\ Returned
            /\ UNCHANGED <<allocated, m_timers, m_measurements>>

RemoveTimerCall(name) ==
    /\ aborted = "none"
    /\ IF named_timer_assert(m_timers, name) # "none"
       THEN Abort(named_timer_assert(m_timers, name), "remove_timer", <<name>>)
       ELSE /\ heap' = remove_timer(heap, m_timers, name).heap
            /\ m_timers' = remove_timer(heap, m_timers, name).m_timers
            /\ Returned
            /\ UNCHANGED <<allocated, m_measurements>>

ResetAllTimers ==
    /\ aborted = "none"
    /\ heap' = reset_all_timers(heap, m_timers, now)
    /\ Returned
    /\ UNCHANGED <<allocated, m_timers, m_measurements>>

StopAllTimers ==
    /\ aborted = "none"
    /\ heap' = stop_all_timers(heap, m_timers, now)
    /\ Returned
    /\ UNCHANGED <<allocated, m_timers, m_measurements>>

GetTimerCall(name) ==
    /\ aborted = "none"
    /\ IF get_timer_assert(m_timers, name) # "none"
       THEN Abort(get_timer_assert(m_timers, name), "get_timer", <<name>>)
       ELSE /\ Returned
            /\ UNCHANGED managerVars

IsTimerRunningCall(name) ==
    /\ aborted = "none"
    /\ Returned
    /\ UNCHANGED managerVars

GetElapsedTimeCall(name) ==
    /\ aborted = "none"
    /\ IF named_timer_assert(m_timers, name) # "none"
       THEN Abort(named_timer_assert(m_timers, name), "get_elapsed_time", <<name>>)
       ELSE /\ Returned
            /\ UNCHANGED managerVars

RenameTimerCall(old_name, new_name) ==
    /\ aborted = "none"
    /\ IF rename_timer_assert(m_timers, old_name, new_name) # "none"
       THEN Abort(rename_timer_assert(m_timers, old_name, new_name),
                  "rename_timer", <<old_name, new_name>>)
       ELSE /\ m_timers' = rename_timer(m_timers, old_name, new_name)
            /\ lastCall' = [op |-> "rename_timer", args |-> <<old_name, new_name>>]
            /\ UNCHANGED <<now, ret, aborted>>
            /\ UNCHANGED <<heap, allocated, m_measurements>>

AddAndStartTimer == \E name \in Names : AddAndStartTimerCall(name)
StopTimer == \E name \in Names : StopTimerCall(name)
ResetTimer == \E name \in Names : ResetTimerCall(name)
PauseTimer == \E name \in Names : PauseTimerCall(name)
ResumeTimer == \E name \in Names : ResumeTimerCall(name)
RemoveTimer == \E name \in Names : RemoveTimerCall(name)
GetTimer == \E name \in Names : GetTimerCall(name)
IsTimerRunning == \E name \in Names : IsTimerRunningCall(name)
GetElapsedTime == \E name \in Names : GetElapsedTimeCall(name)
RenameTimer ==
    \E old_name \in Names, new_name \in Names : RenameTimerCall(old_name, new_name)

InitManager ==
    /\ now = 0
    /\ lastCall = [op |-> "multiple_timer_manager", args |-> <<>>]
    /\ ret = "void"
    /\ aborted = "none"
    /\ tmr = timer_members
    /\ pre_tmr = timer_members
    /\ g_active = 0
    /\ g_since = 0
    /\ phase = "measuring"
    /\ heap = no_heap
    /\ allocated = 0
    /\ m_timers = no_timers
    /\ m_measurements = <<>>
    /\ instance = instrumentor_ctor
    /\ callLog = <<>>
    /\ begun = 0
    /\ NoInstrumentationTimer
    /\ NoStatistics
    /\ NoThreads

NextManager ==
    \/ (ManagerTick /\ UNCHANGED <<timerVars, instrumentorVars, laterVars>>)
    \/ (AddAndStartTimer /\ UNCHANGED <<timerVars, instrumentorVars, laterVars>>)
    \/ (StopTimer /\ UNCHANGED <<timerVars, instrumentorVars, laterVars>>)
    \/ (ResetTimer /\ UNCHANGED <<timerVars, instrumentorVars, laterVars>>)
    \/ (PauseTimer /\ UNCHANGED <<timerVars, instrumentorVars, laterVars>>)
    \/ (ResumeTimer /\ UNCHANGED <<timerVars, instrumentorVars, laterVars>>)
    \/ (RemoveTimer /\ UNCHANGED <<timerVars, instrumentorVars, laterVars>>)
    \/ (ResetAllTimers /\ UNCHANGED <<timerVars, instrumentorVars, laterVars>>)
    \/ (StopAllTimers /\ UNCHANGED <<timerVars, instrumentorVars, laterVars>>)
    \/ (GetTimer /\ UNCHANGED <<timerVars, instrumentorVars, laterVars>>)
    \/ (IsTimerRunning /\ UNCHANGED <<timerVars, instrumentorVars, laterVars>>)
    \/ (GetElapsedTime /\ UNCHANGED <<timerVars, instrumentorVars, laterVars>>)
    \/ (RenameTimer /\ UNCHANGED <<timerVars, instrumentorVars, laterVars>>)

SpecManager == InitManager /\ [][NextManager]_vars

\* ---------------------------------------- the instrumentor driven by callers
\* callLog after one more call.
Logged(call) ==
    IF callLog # <<>> /\ callLog[Len(callLog)].op = "end_session"
    THEN <<call>>
    ELSE Append(callLog, call)

BeginSession ==
    /\ begun < MaxSessions
    /\ instance' = begin_session(instance, "session")
    /\ callLog' = Logged([op |-> "begin_session"])
    /\ begun' = begun + 1

EndSession ==
    /\ instance' = end_session(instance)
    /\ callLog' = Logged([op |-> "end_session"])
    /\ UNCHANGED begun

\* write_profile, called directly or by instrumentation_timer::stop().
WriteProfile ==
    \E result \in ProfileResults :
        /\ instance.m_profile_count < MaxProfiles
        /\ instance' = write_profile(instance, result)
        /\ callLog' = Logged([op |-> "write_profile", result |-> result])
        /\ UNCHANGED begun

InitInstrumentor ==
    /\ now = 0
    /\ lastCall = [op |-> "instrumentor", args |-> <<>>]
    /\ ret = "void"
    /\ aborted = "none"
    /\ tmr = timer_members
    /\ pre_tmr = timer_members
    /\ g_active = 0
    /\ g_since = 0
    /\ phase = "measuring"
    /\ heap = no_heap
    /\ allocated = 0
    /\ m_timers = no_timers
    /\ m_measurements = <<>>
    /\ instance = instrumentor_ctor
    /\ callLog = <<>>
    /\ begun = 0
    /\ NoInstrumentationTimer
    /\ NoStatistics
    /\ NoThreads

NextInstrumentor ==
    \/ (BeginSession /\ UNCHANGED <<now, lastCall, ret, aborted, timerVars, managerVars, laterVars>>)
    \/ (EndSession /\ UNCHANGED <<now, lastCall, ret, aborted, timerVars, managerVars, laterVars>>)
    \/ (WriteProfile /\ UNCHANGED <<now, lastCall, ret, aborted, timerVars, managerVars, laterVars>>)

SpecInstrumentor == InitInstrumentor /\ [][NextInstrumentor]_vars

\* ------------------------- one instrumentation_timer driven by its owner
\* The owner's thread.
OwnerThread == 1

\* stop(), called by the owner or by the destructor: the event it forwards, if
\* any, is a write_profile call on the instrumentor.
ForwardingStop ==
    /\ itimer.m_stopped \/ instance.m_profile_count < MaxProfiles
    /\ itimer' = instrumentation_timer_stop(itimer, instance, now, OwnerThread).self
    /\ instance' = instrumentation_timer_stop(itimer, instance, now, OwnerThread).instance
    /\ callLog' = IF itimer.m_stopped THEN callLog
                  ELSE Logged([op |-> "write_profile",
                               result |-> profile_result(itimer, now, OwnerThread)])
    /\ UNCHANGED <<now, ret, aborted, begun>>

InstrumentationTimerTick ==
    /\ now < MaxClock
    /\ now' = now + 1
    /\ lastCall' = [op |-> "tick", args |-> <<>>]
    /\ UNCHANGED <<ret, aborted, instrumentorVars, instrumentationTimerVars>>

InstrumentationTimerStart ==
    /\ ~destroyed
    /\ itimer' = instrumentation_timer_start(itimer, now)
    /\ lastCall' = [op |-> "start", args |-> <<>>]
    /\ UNCHANGED <<now, ret, aborted, instrumentorVars, destroyed>>

InstrumentationTimerStop ==
    /\ ~destroyed
    /\ ForwardingStop
    /\ lastCall' = [op |-> "stop", args |-> <<>>]
    /\ UNCHANGED destroyed

\* ~instrumentation_timer() { stop(); }
InstrumentationTimerDestroy ==
    /\ ~destroyed
    /\ ForwardingStop
    /\ lastCall' = [op |-> "~instrumentation_timer", args |-> <<>>]
    /\ destroyed' = TRUE

\* The timer is constructed with any name, with or without a session open.
InitInstrumentationTimer ==
    /\ now = 0
    /\ lastCall = [op |-> "instrumentation_timer", args |-> <<>>]
    /\ ret = "void"
    /\ aborted = "none"
    /\ NoTimer
    /\ NoManager
    /\ m_measurements = <<>>
    /\ \/ /\ instance = instrumentor_ctor
          /\ callLog = <<>>
          /\ begun = 0
       \/ /\ instance = begin_session(instrumentor_ctor, "session")
          /\ callLog = <<[op |-> "begin_session"]>>
          /\ begun = 1
    /\ \E name \in NameStrings : itimer = instrumentation_timer_ctor(name, now)
    /\ destroyed = FALSE
    /\ NoStatistics
    /\ NoThreads

NextInstrumentationTimer ==
    \/ (InstrumentationTimerTick /\ UNCHANGED <<timerVars, managerVars, statisticsVars, threadVars>>)
    \/ (InstrumentationTimerStart /\ UNCHANGED <<timerVars, managerVars, statisticsVars, threadVars>>)
    \/ (InstrumentationTimerStop /\ UNCHANGED <<timerVars, managerVars, statisticsVars, threadVars>>)
    \/ (InstrumentationTimerDestroy /\ UNCHANGED <<timerVars, managerVars, statisticsVars, threadVars>>)

SpecInstrumentationTimer ==
    InitInstrumentationTimer /\ [][NextInstrumentationTimer]_vars

\* ------------------------------------- timer_statistics driven by a caller
AddMeasurement ==
    \E time \in SampleValues :
        /\ added < MaxAdds
        /\ m_measurements' = add_measurement(m_measurements, time)
        /\ added' = added + 1
        /\ lastCall' = [op |-> "add_measurement", args |-> <<time>>]
        /\ ret' = "void"
        /\ UNCHANGED <<now, aborted>>

ClearMeasurements ==
    /\ m_measurements' = clear_measurements(m_measurements)
    /\ lastCall' = [op |-> "clear_measurements", args |-> <<>>]
    /\ ret' = "void"
    /\ UNCHANGED <<now, aborted, added>>

\* The caller asks for the six aggregates in turn.
Calculate ==
    /\ ret' = [average |-> calculate_average(m_measurements),
               variance |-> calculate_variance(m_measurements),
               standard_deviation |-> calculate_standard_deviation(m_measurements),
               median |-> calculate_median(m_measurements).value,
               min |-> get_min_value(m_measurements),
               max |-> get_max_value(m_measurements)]
    /\ m_measurements' = calculate_median(m_measurements).m_measurements
    /\ lastCall' = [op |-> "calculate", args |-> <<>>]
    /\ UNCHANGED <<now, aborted, added>>

InitStatistics ==
    /\ now = 0
    /\ lastCall = [op |-> "timer_statistics", args |-> <<>>]
    /\ ret = "void"
    /\ aborted = "none"
    /\ NoTimer
    /\ NoManager
    /\ m_measurements = <<>>
    /\ instance = instrumentor_ctor
    /\ callLog = <<>>
    /\ begun = 0
    /\ NoInstrumentationTimer
    /\ added = 0
    /\ NoThreads

NextStatistics ==
    \/ (AddMeasurement /\ UNCHANGED <<timerVars, heap, allocated, m_timers, instrumentorVars, instrumentationTimerVars, threadVars>>)
    \/ (ClearMeasurements /\ UNCHANGED <<timerVars, heap, allocated, m_timers, instrumentorVars, instrumentationTimerVars, threadVars>>)
    \/ (Calculate /\ UNCHANGED <<timerVars, heap, allocated, m_timers, instrumentorVars, instrumentationTimerVars, threadVars>>)

SpecStatistics == InitStatistics /\ [][NextStatistics]_vars

\* ------------------------------------ threads calling write_profile
\* Two threads, each forwarding one event of its own to the singleton.
Threads == {1, 2}

ThreadResult(t) == [name |-> <<"f">>, start |-> 0, end |-> 2, threadID |-> t]

\* Thread t is inside write_profile.
Inside(t) == pc[t] > 0 /\ pc[t] < Len(Statements)

\* Thread t executes its next statement.  With external serialization it
\* enters write_profile only while no other thread is inside.
ThreadStep(t) ==
    /\ pc[t] < Len(Statements)
    /\ (serialized /\ pc[t] = 0) => \A u \in Threads \ {t} : ~Inside(u)
    /\ instance' =
           write_profile_statement(instance, pc[t] + 1, ThreadResult(t), loaded[t]).instance
    /\ loaded' = [loaded EXCEPT ![t] =
           write_profile_statement(instance, pc[t] + 1, ThreadResult(t), loaded[t]).loaded]
    /\ pc' = [pc EXCEPT ![t] = @ + 1]
    /\ callLog' = IF pc[t] = 0
                  THEN Logged([op |-> "write_profile", result |-> ThreadResult(t)])
                  ELSE callLog
    /\ UNCHANGED <<now, lastCall, ret, aborted, begun, serialized>>

\* A session is open; the callers either serialize their calls or do not.
InitThreads ==
    /\ now = 0
    /\ lastCall = [op |-> "begin_session", args |-> <<>>]
    /\ ret = "void"
    /\ aborted = "none"
    /\ NoTimer
    /\ NoManager
    /\ m_measurements = <<>>
    /\ instance = begin_session(instrumentor_ctor, "session")
    /\ callLog = <<[op |-> "begin_session"]>>
    /\ begun = 1
    /\ NoInstrumentationTimer
    /\ NoStatistics
    /\ pc = [t \in Threads |-> 0]
    /\ loaded = [t \in Threads |-> 0]
    /\ serialized \in BOOLEAN

NextThreads ==
    \E t \in Threads :
        ThreadStep(t) /\ UNCHANGED <<timerVars, managerVars, instrumentationTimerVars, statisticsVars>>

SpecThreads == InitThreads /\ [][NextThreads]_vars

\* ------------------------------------------------------- claims: the timer
\* C1: after construction (or reset) followed by pause()/resume() calls and
\* then stop(), also a stop() issued while paused, get_time() equals the sum
\* of the durations of the intervals in which the timer was running and not
\* paused.  (The statement of the claim; the code violates it.)
C1_Claim == phase = "stopped" => get_time(tmr) = g_active

\* C2: a step that makes get_time() larger starts in a state where the timer
\* is running and not paused.  (The statement of the claim; the code
\* violates it.)
C2_Claim ==
    [][get_time(tmr') > get_time(tmr) => (is_running(tmr) /\ ~is_paused(tmr))]_vars

\* C3: complated_on_time(t) returns false while the timer is not stopped and
\* (t >= get_time()) once it is stopped, and changes no timer state.
C3_Thm ==
    lastCall.op = "complated_on_time" =>
        /\ is_running(pre_tmr) => ret = FALSE
        /\ ~is_running(pre_tmr) => ret = (lastCall.args[1] >= get_time(pre_tmr))
        /\ tmr = pre_tmr

\* C3 witness: a stopped timer with a positive accumulated time, asked with a
\* threshold it meets.
C3_Witness ==
    /\ lastCall.op = "complated_on_time"
    /\ ~is_running(tmr)
    /\ get_time(tmr) > 0
    /\ ret = TRUE

\* C4: pause() on a paused timer, resume() on a timer that is not paused,
\* stop() on a stopped timer and start() on a running timer change none of
\* accumulated time, stopped flag, paused flag, interval start point, and
\* none of them aborts.
C4_Thm ==
    (\/ lastCall.op = "pause" /\ is_paused(pre_tmr)
     \/ lastCall.op = "resume" /\ ~is_paused(pre_tmr)
     \/ lastCall.op = "stop" /\ ~is_running(pre_tmr)
     \/ lastCall.op = "start" /\ is_running(pre_tmr))
    => (tmr = pre_tmr /\ aborted = "none")

\* C4 witness: start() called on a running timer that has already
\* accumulated time and whose interval started before now.
C4_Witness ==
    /\ lastCall.op = "start"
    /\ is_running(pre_tmr)
    /\ get_time(pre_tmr) > 0
    /\ pre_tmr.m_timepoint < now


\* ---------------------------------------------------- claims: the registry
\* The messages of the unknown-name assertions (get_timer's has no '!').
UnknownName == {"Timer not found!", "Timer not found"}

\* The calls that assert that the name is present, each with one name.
NamedCall(name) ==
    \/ StopTimerCall(name)
    \/ PauseTimerCall(name)
    \/ ResumeTimerCall(name)
    \/ ResetTimerCall(name)
    \/ RemoveTimerCall(name)
    \/ GetTimerCall(name)
    \/ GetElapsedTimeCall(name)

\* C5, as stated: add_and_start_timer with a present name fails with the
\* duplicate-name assertion; stop_timer, pause_timer, resume_timer,
\* reset_timer, remove_timer, get_timer, get_elapsed_time and
\* rename_timer(old, ...) with an absent name fail with the unknown-name
\* assertion; rename_timer onto a present new name fails.
C5_Claim ==
    [][\A name \in Names :
        /\ (found(m_timers, name) /\ AddAndStartTimerCall(name))
               => aborted' = "Timer already exists!"
        /\ (~found(m_timers, name) /\ NamedCall(name))
               => aborted' \in UnknownName
        /\ \A other \in Names :
            /\ (~found(m_timers, name) /\ RenameTimerCall(name, other))
                   => aborted' \in UnknownName
            /\ (found(m_timers, name) /\ RenameTimerCall(other, name))
                   => aborted' # "none"]_vars

\* C5, amended: as C5_Claim, but rename_timer(old, new) with old absent fails
\* with the unknown-name assertion only when new is absent too; when new is
\* present it fails with the new-name-exists assertion, which is checked
\* first.
C5_Thm ==
    [][\A name \in Names :
        /\ (found(m_timers, name) /\ AddAndStartTimerCall(name))
               => aborted' = "Timer already exists!"
        /\ (~found(m_timers, name) /\ NamedCall(name))
               => aborted' \in UnknownName
        /\ \A other \in Names :
            /\ (~found(m_timers, name) /\ ~found(m_timers, other)
                    /\ RenameTimerCall(name, other))
                   => aborted' \in UnknownName
            /\ (found(m_timers, name) /\ RenameTimerCall(other, name))
                   => aborted' = "New timer name already exists!"]_vars

\* C5 witness: rename_timer called with an absent old name (and an absent
\* new name) has aborted with the unknown-name assertion.
C5_Witness ==
    /\ lastCall.op = "rename_timer"
    /\ aborted \in UnknownName
    /\ lastCall.args[1] # lastCall.args[2]

\* C6: rename_timer(old, new) with old present and new absent returns
\* normally; new then names the same timer instance with the same members,
\* old is absent (get_timer(old) fails), the number of entries is the same
\* and every other entry, the heap and the samples are untouched.
C6_Thm ==
    [][\A o \in Names, n \in Names :
        (found(m_timers, o) /\ ~found(m_timers, n)
            /\ RenameTimerCall(o, n)) =>
            /\ aborted' = "none"
            /\ get_timer_assert(m_timers', n) = "none"
            /\ get_timer(m_timers', n) = get_timer(m_timers, o)
            /\ heap'[get_timer(m_timers', n)] = heap[get_timer(m_timers, o)]
            /\ get_timer_assert(m_timers', o) \in UnknownName
            /\ Cardinality(DOMAIN m_timers') = Cardinality(DOMAIN m_timers)
            /\ \A x \in DOMAIN m_timers \ {o} :
                /\ found(m_timers', x)
                /\ get_timer(m_timers', x) = get_timer(m_timers, x)
                /\ heap'[get_timer(m_timers', x)] = heap[get_timer(m_timers, x)]]_vars

\* C6 witness: rename_timer(old, new) has returned in a registry of two
\* entries; the renamed timer is stopped with accumulated time, the other
\* one is running.
C6_Witness ==
    /\ lastCall.op = "rename_timer"
    /\ aborted = "none"
    /\ Cardinality(DOMAIN m_timers) = 2
    /\ found(m_timers, lastCall.args[2])
    /\ ~found(m_timers, lastCall.args[1])
    /\ get_time(heap[m_timers[lastCall.args[2]]]) > 0
    /\ ~is_running(heap[m_timers[lastCall.args[2]]])
    /\ \E x \in DOMAIN m_timers : is_running(heap[m_timers[x]])

\* C7: stop_timer(name) with name present returns normally, leaves the
\* named timer stopped and appends exactly one sample, the timer's
\* get_time() after the stop, behind the samples taken before.
C7_Thm ==
    [][\A name \in Names :
        (found(m_timers, name) /\ StopTimerCall(name)) =>
            /\ aborted' = "none"
            /\ found(m_timers', name)
            /\ ~is_running(heap'[get_timer(m_timers', name)])
            /\ m_measurements' =
                   Append(m_measurements,
                          get_time(heap'[get_timer(m_timers', name)]))]_vars

\* C7 witness: two stop_timer calls have returned (nothing else appends a
\* sample) and left two different samples.
C7_Witness ==
    /\ aborted = "none"
    /\ Len(m_measurements) = 2
    /\ m_measurements[1] # m_measurements[2]

\* The orders in which the names of S can be visited.
Orders(S) ==
    {ord \in [1..Cardinality(S) -> S] :
        \A i, j \in 1..Cardinality(S) : i # j => ord[i] # ord[j]}

\* stop_timer called for ord[1], ord[2], ... in turn at clock value clk.
RECURSIVE StopEach(_, _, _, _, _)
StopEach(ord, h, timers, samples, clk) ==
    IF ord = <<>> THEN [heap |-> h, m_measurements |-> samples]
    ELSE LET r == stop_timer(h, timers, samples, Head(ord), clk)
         IN  StopEach(Tail(ord), r.heap, timers, r.m_measurements, clk)

\* C8, as stated: stop_all_timers() leaves the timers and the shared sample
\* set as stop_timer(name) called once for each present name does, in some
\* order.  (The code violates it.)
C8_Claim ==
    [][(StopAllTimers) =>
        \E ord \in Orders(DOMAIN m_timers) :
            /\ heap' = StopEach(ord, heap, m_timers, m_measurements, now).heap
            /\ m_measurements' =
                   StopEach(ord, heap, m_timers, m_measurements, now).m_measurements]_vars

\* ------------------------------------------------ claims: the instrumentor
\* The results of the write_profile calls in callLog, in call order.
Results(log) ==
    [i \in 1..(Len(log) - 2) |-> log[i + 1].result]

\* callLog is begin_session, n >= 0 write_profile calls, end_session, made on
\* a fresh instrumentor or right after an end_session.
CompleteSession ==
    /\ Len(callLog) >= 2
    /\ callLog[1].op = "begin_session"
    /\ callLog[Len(callLog)].op = "end_session"
    /\ \A i \in 2..(Len(callLog) - 1) : callLog[i].op = "write_profile"

\* The event objects of results with one comma between consecutive objects.
RECURSIVE Separated(_)
Separated(results) ==
    IF results = <<>> THEN <<>>
    ELSE IF Len(results) = 1 THEN <<EventObject(results[1])>>
    ELSE <<EventObject(results[1]), Comma>> \o Separated(Tail(results))

\* C9: from a fresh instrumentor, or one on which end_session() was the last
\* call, begin_session, n >= 0 write_profile calls and end_session leave in
\* the file exactly the header, the n event objects in call order with one
\* comma between consecutive objects and none before the first or after the
\* last, and the footer; the event count is 0 again afterwards.
C9_Thm ==
    CompleteSession =>
        /\ instance.m_output_stream.file =
               <<Header>> \o Separated(Results(callLog)) \o <<Footer>>
        /\ instance.m_profile_count = 0

\* A second session of three events, not all the same, has been written.
C9_Witness ==
    /\ CompleteSession
    /\ begun = 2
    /\ Len(callLog) = 5
    /\ callLog[2].result # callLog[3].result
    /\ Len(instance.m_output_stream.file) = 7

\* The event object at position i of file f is the first one after the header.
FirstAfterHeader(f, i) ==
    \E h \in 1..(i - 1) :
        /\ f[h] = Header
        /\ \A k \in (h + 1)..(i - 1) : f[k].w # "object"

\* C10: whatever begin_session, end_session and write_profile calls are made,
\* write_profile calls without an open session included, in the file the
\* first event written after the header is not preceded by a comma and every
\* later event is preceded by exactly one comma.
C10_Claim ==
    LET f == instance.m_output_stream.file
    IN  \A i \in DOMAIN f :
            f[i].w = "object" =>
                IF FirstAfterHeader(f, i)
                THEN f[i - 1] # Comma
                ELSE /\ i > 2
                     /\ f[i - 1] = Comma
                     /\ f[i - 2] # Comma

\* ------------------------------------- claims: the instrumentation timer
\* out is name with every double quote replaced by a single quote and every
\* other character left where it is.
QuotesReplaced(name, out) ==
    /\ Len(out) = Len(name)
    /\ \A i \in 1..Len(name) :
        /\ name[i] = "\"" => out[i] = "'"
        /\ name[i] # "\"" => out[i] = name[i]
    /\ \A i \in 1..Len(out) : out[i] # "\""

\* C11: the name field of every event object write_profile wrote is the name
\* it was given with every double quote replaced by a single quote and every
\* other character, backslashes and control characters included, unchanged
\* at the same position; it has no double quote and the length of the input.
C11_Thm ==
    \A i \in DOMAIN instance.m_output_stream.file :
        instance.m_output_stream.file[i].w = "object" =>
            QuotesReplaced(itimer.m_name, instance.m_output_stream.file[i].name)

\* C11 witness: an event has been written for a name made of a double quote,
\* a backslash and a control character.
C11_Witness ==
    /\ \E i \in DOMAIN instance.m_output_stream.file :
           instance.m_output_stream.file[i].w = "object"
    /\ itimer.m_name = <<"\"", "\\", "\n">>

\* The events forwarded to the instrumentor so far.
Forwarded == {i \in DOMAIN callLog : callLog[i].op = "write_profile"}

\* C12, as stated: whatever public start() and stop() calls are made, at most
\* one event has been forwarded, with dur = end - start >= 0, and exactly one
\* once the destructor has run.  (The code violates it.)
C12_Claim ==
    /\ Cardinality(Forwarded) <= 1
    /\ destroyed => Cardinality(Forwarded) = 1
    /\ \A i \in Forwarded : callLog[i].result.end - callLog[i].result.start >= 0

\* ------------------------------------------------ claims: the statistics
\* C13: on an empty sample set, freshly constructed or cleared after any
\* number of add_measurement calls, the average, variance, standard deviation
\* and median are 0 and so are the minimum and the maximum.
C13_Thm ==
    (lastCall.op = "calculate" /\ m_measurements = <<>>) =>
        /\ ret.average = to_double(0)
        /\ ret.variance = to_double(0)
        /\ ret.standard_deviation = to_double(0)
        /\ ret.median = to_double(0)
        /\ ret.min = 0
        /\ ret.max = 0

\* C13 witness: the aggregates have been asked for after samples were added
\* and cleared.
C13_Witness ==
    /\ lastCall.op = "calculate"
    /\ m_measurements = <<>>
    /\ added >= 2

\* s without its i-th element.
Without(s, i) == SubSeq(s, 1, i - 1) \o SubSeq(s, i + 1, Len(s))

\* The sequences holding the samples of s in every order.
RECURSIVE Reorderings(_)
Reorderings(s) ==
    IF s = <<>> THEN {<<>>}
    ELSE UNION {{<<s[i]>> \o r : r \in Reorderings(Without(s, i))} : i \in DOMAIN s}

Ascending(s) == \A i \in 1..(Len(s) - 1) : s[i] <= s[i + 1]

\* x (with root 1) is the number p / q, q > 0.
Is(x, p, q) == x.root = 1 /\ x.num * q = p * x.den

\* C14: for non-empty samples calculate_median returns the central element
\* of the samples in ascending order for an odd count and the average of the
\* two central ones for an even count (2.5 for [1,2,3,4]); the result is the
\* same for every permutation of the samples, lies between the minimum and
\* the maximum, and the call leaves the stored samples as they were.
C14_Thm ==
    [][(lastCall'.op = "calculate" /\ m_measurements # <<>>) =>
        /\ \A t \in Reorderings(m_measurements) :
            /\ Ascending(t) =>
                IF Len(t) % 2 = 1
                THEN Is(ret'.median, t[(Len(t) + 1) \div 2], 1)
                ELSE Is(ret'.median, t[Len(t) \div 2] + t[Len(t) \div 2 + 1], 2)
            /\ Is(calculate_median(t).value, ret'.median.num, ret'.median.den)
        /\ ret'.min * ret'.median.den <= ret'.median.num
        /\ ret'.median.num <= ret'.max * ret'.median.den
        /\ m_measurements = <<1, 2, 3, 4>> => Is(ret'.median, 5, 2)
        /\ m_measurements' = m_measurements]_vars

\* C14 witness: the median of four samples given out of order, the two
\* central ones different, has been computed.
C14_Witness ==
    /\ lastCall.op = "calculate"
    /\ m_measurements = <<4, 1, 3, 2>>
    /\ Is(ret.median, 5, 2)

\* The sum of the samples of s, from the last one back.
RECURSIVE Total(_)
Total(s) == IF s = <<>> THEN 0 ELSE s[Len(s)] + Total(SubSeq(s, 1, Len(s) - 1))

\* sum((count * x - sum)^2): count^2 times the sum of the squared deviations.
RECURSIVE ScaledSquares(_, _, _)
ScaledSquares(s, count, sum) ==
    IF s = <<>> THEN 0
    ELSE (count * Head(s) - sum) * (count * Head(s) - sum)
         + ScaledSquares(Tail(s), count, sum)

\* C15: for non-empty samples calculate_average returns sum / count,
\* calculate_variance the population variance sum((x - mean)^2) / count,
\* get_min_value and get_max_value the least and the greatest sample, and
\* min <= mean <= max; [10,20,30] gives mean 20, min 10, max 30 and variance
\* 200/3.
C15_Thm ==
    (lastCall.op = "calculate" /\ m_measurements # <<>>) =>
        LET count == Len(m_measurements)
            sum == Total(m_measurements)
        IN  /\ Is(ret.average, sum, count)
            /\ Is(ret.variance, ScaledSquares(m_measurements, count, sum),
                  count * count * count)
            /\ \E i \in DOMAIN m_measurements : ret.min = m_measurements[i]
            /\ \A i \in DOMAIN m_measurements : ret.min <= m_measurements[i]
            /\ \E i \in DOMAIN m_measurements : ret.max = m_measurements[i]
            /\ \A i \in DOMAIN m_measurements : ret.max >= m_measurements[i]
            /\ ret.min * ret.average.den <= ret.average.num
            /\ ret.average.num <= ret.max * ret.average.den
            /\ m_measurements = <<10, 20, 30>> =>
                /\ Is(ret.average, 20, 1)
                /\ ret.min = 10
                /\ ret.max = 30
                /\ Is(ret.variance, 200, 3)

\* C15 witness: the aggregates of [10,20,30] have been computed.
C15_Witness ==
    /\ lastCall.op = "calculate"
    /\ m_measurements = <<10, 20, 30>>
    /\ Is(ret.variance, 200, 3)

\* ------------------------------------------- claims: the timer, continued
\* C16, as stated: a start(), pause(), resume() or stop() call on a stopped
\* timer leaves it stopped with the same accumulated time.  (The code
\* violates it.)
C16_Claim ==
    [][(~is_running(tmr) /\ lastCall'.op \in {"start", "pause", "resume", "stop"}) =>
        /\ ~is_running(tmr')
        /\ get_time(tmr') = get_time(tmr)]_vars

\* --------------------------------------------------- claims: the threads
\* The parts of the events of the threads ord[1], ord[2], ... with one comma
\* between consecutive events.
RECURSIVE SerialEvents(_)
SerialEvents(ord) ==
    IF ord = <<>> THEN <<>>
    ELSE IF Len(ord) = 1 THEN EventParts(ThreadResult(ord[1]))
    ELSE EventParts(ThreadResult(ord[1])) \o <<Comma>> \o SerialEvents(Tail(ord))

\* f is the beginning of g.
IsPrefix(f, g) ==
    /\ Len(f) <= Len(g)
    /\ \A i \in 1..Len(f) : f[i] = g[i]

\* All threads have returned from write_profile.
AllReturned == \A t \in Threads : pc[t] = Len(Statements)

\* The output is corrupted: the file is not the beginning of the header
\* followed by whole events separated by single commas (two objects written
\* with no comma between them, or text of one inside the other), or all calls
\* have returned and the event count is lower than the number of events.
Corrupted ==
    \/ \A ord \in Orders(Threads) :
           ~IsPrefix(instance.m_output_stream.file, <<Header>> \o SerialEvents(ord))
    \/ AllReturned /\ instance.m_profile_count < Cardinality(Threads)

\* C17: when the write_profile calls of the threads are serialized, no state
\* with corrupted output is reachable.  (That one is reachable without
\* serialization is C17_Witness.)
C17_Thm == serialized => ~Corrupted

\* C17 witness: without serialization both calls have returned, the two
\* objects are in the file with no comma anywhere, the text of one inside the
\* other, and the event count is 1 for 2 events.
C17_Witness ==
    /\ ~serialized
    /\ AllReturned
    /\ instance.m_profile_count < Cardinality(Threads)
    /\ \A i \in DOMAIN instance.m_output_stream.file :
           instance.m_output_stream.file[i] # Comma
    /\ instance.m_output_stream.file[3].w = "part"
    /\ instance.m_output_stream.file[3].field = "cat"
    /\ Corrupted

\* ----------------------------------------- claims: the registry, continued
\* The accumulated time, stopped flag and paused flag of a timer.
Observed(t) == <<get_time(t), ~is_running(t), is_paused(t)>>

\* The step leaves every entry whose name is not in S present, with the same
\* accumulated time, stopped flag and paused flag.
OthersKept(S) ==
    \A x \in DOMAIN m_timers \ S :
        /\ found(m_timers', x)
        /\ Observed(heap'[get_timer(m_timers', x)])
               = Observed(heap[get_timer(m_timers, x)])

\* C18: every successful add_and_start_timer, stop_timer, pause_timer,
\* resume_timer, reset_timer, remove_timer and rename_timer addressed to n
\* leaves the accumulated time and flags of every other entry unchanged, and
\* only stop_timer changes the samples; a timer just added is running with
\* accumulated time 0; after remove_timer(n) the name n is absent, the
\* samples are unchanged and add_and_start_timer(n) succeeds again, with a
\* fresh running timer whose accumulated time is 0.
C18_Thm ==
    [][\A n \in Names :
        /\ (~found(m_timers, n) /\ AddAndStartTimerCall(n)) =>
            /\ aborted' = "none"
            /\ OthersKept({n})
            /\ m_measurements' = m_measurements
            /\ found(m_timers', n)
            /\ Observed(heap'[get_timer(m_timers', n)]) = <<0, FALSE, FALSE>>
        /\ (found(m_timers, n) /\ StopTimerCall(n)) => OthersKept({n})
        /\ (found(m_timers, n)
                /\ (PauseTimerCall(n) \/ ResumeTimerCall(n) \/ ResetTimerCall(n))) =>
            /\ OthersKept({n})
            /\ m_measurements' = m_measurements
        /\ (found(m_timers, n) /\ RemoveTimerCall(n)) =>
            /\ OthersKept({n})
            /\ m_measurements' = m_measurements
            /\ ~found(m_timers', n)
            /\ add_and_start_timer_assert(m_timers', n) = "none"
            /\ LET again == add_and_start_timer(heap', m_timers', n, now', allocated' + 1)
               IN  /\ found(again.m_timers, n)
                   /\ Observed(again.heap[get_timer(again.m_timers, n)])
                          = <<0, FALSE, FALSE>>
                   /\ \A x \in DOMAIN m_timers' :
                          Observed(again.heap[get_timer(again.m_timers, x)])
                              = Observed(heap'[get_timer(m_timers', x)])
        /\ \A o \in Names :
            (found(m_timers, o) /\ ~found(m_timers, n) /\ RenameTimerCall(o, n)) =>
                /\ OthersKept({o, n})
                /\ m_measurements' = m_measurements]_vars

\* C18 witness: two timers have been allocated, a sample has been taken by
\* stop_timer and a timer has been removed: the registry holds only the
\* second timer allocated, still running with accumulated time 0, and the
\* sample is kept.
C18_Witness ==
    /\ aborted = "none"
    /\ allocated = 2
    /\ Cardinality(DOMAIN m_timers) = 1
    /\ Len(m_measurements) = 1
    /\ now > 0
    /\ \A x \in DOMAIN m_timers :
        /\ get_timer(m_timers, x) = 2
        /\ Observed(heap[get_timer(m_timers, x)]) = <<0, FALSE, FALSE>>

\* C19, as stated: is_timer_running(name) returns true exactly when name is
\* present and its timer is running, and agrees with
\* get_timer(name)->is_running() for present names.  (The code violates it.)
C19_Claim ==
    [][\A name \in Names :
        IsTimerRunningCall(name) =>
            is_timer_running(heap, m_timers, name)
                = IF found(m_timers, name)
                  THEN is_running(heap[get_timer(m_timers, name)])
                  ELSE FALSE]_vars

\* C20, as stated: a successful stop_timer(name) appends a sample exactly
\* when it takes the timer from running to stopped, so the number of samples
\* is the number of such transitions and a second stop_timer on a stopped
\* timer appends nothing.  (The code violates it.)
C20_Claim ==
    [][\A name \in Names :
        (found(m_timers, name) /\ StopTimerCall(name)) =>
            Len(m_measurements') =
                Len(m_measurements)
                + (IF is_running(heap[get_timer(m_timers, name)]) THEN 1 ELSE 0)]_vars

====
